---- MODULE Spec2Model ----
(***************************************************************************)
(* Imogene: EventsHandler and NotifyingValue (src/unnamed/part_000, the    *)
(* revision with #doReplaceWith; the same classes are in src/Imogene.js,   *)
(* src/EventsHandler.js, src/unnamed/part_003 and src/unnamed/part_004).   *)
(*                                                                         *)
(* One NotifyingValue with its EventsHandler is modelled.  JavaScript is   *)
(* single threaded: a call made by the application runs to completion      *)
(* before the next one starts, but a listener invoked by dispatch may call *)
(* back into the same object before dispatch's loop continues.  A dispatch *)
(* in progress is a frame on `stack`; the application's calls are enabled  *)
(* only when the stack is empty.                                           *)
(***************************************************************************)
EXTENDS Integers, Sequences, FiniteSets, TLC

(* Bound: the longest listener array the model lets addListener build. *)
MaxListeners == 3

(* Bound: the number of calls listeners make back into the cell during one *)
(* call of the application.                                                *)
MaxReentrant == 1

(* Listener functions, by reference identity. *)
Listeners == {"l1", "l2"}

(* Values the application stores: two primitives and one object reference. *)
(* An object is compared by reference; its content lives in `heap`.        *)
Prims == {"false", "true"}
Objs == {"o1"}
Values == Prims \cup Objs

(* JavaScript truthiness of a stored value (objects are truthy). *)
Truthy(v) == v # "false"

(* The default translator of the constructor, x => x. *)
Identity == [v \in Values |-> v]

(* The README's translator, v => v ? 'A GOOD thing' : 'A BAD thing'. *)
GoodBad == [v \in Values |-> IF Truthy(v) THEN "A GOOD thing" ELSE "A BAD thing"]

Translators == {Identity, GoodBad}

VARIABLES
    value,       \* NotifyingValue.#value
    translator,  \* NotifyingValue.#translator
    heap,        \* content of each object the application may store
    listeners,   \* EventsHandler.#listeners (the array the field refers to)
    stack,       \* dispatches in progress, innermost last
    log,         \* listener invocations <<listener, argument>> of the current call
    reent,       \* calls listeners made back into the cell during the current call
    ret,         \* what the application's last call returned
    got,         \* result of the application's last get()
    lastOp,      \* the application's last call, with the state it started from
    prevOp,      \* the call before it, with its log
    proms,       \* state of each promise a listener returned in the latest dispatch
    outcome,     \* state of the promise the latest dispatch returned
    threw        \* a listener threw during the latest dispatch

asyncVars == <<proms, outcome, threw>>

(***************************************************************************)
(* DomBinding (src/unnamed/part_000, lines 172-331).  One container element *)
(* is modelled, with the NotifyingValue cells the application binds into   *)
(* it.  A DomBinding instance is a region; the callbacks its listener      *)
(* hands to window.requestAnimationFrame wait in `frames` and run first in, *)
(* first out.                                                              *)
(***************************************************************************)

(* Bound: text nodes alive at one time (attached, or held by a region). *)
MaxTexts == 6

(* Bound: DomBinding instances alive at one time. *)
MaxRegions == 4

(* The cells of the application: c0 is bound to the container, cX is a     *)
(* child inside values of c0, cY a child inside values of cX.              *)
Cells == {"c0", "cX", "cY"}

(* The application's own elements nodeA and nodeB (HTMLElement). *)
nodeA == -1
nodeB == -2

(* Elements the container has from the start: nodeP is the one handed to  *)
(* bind as `exist`, nodeS its next sibling.                                *)
nodeP == -3
nodeS == -4
Elements == {nodeA, nodeB, nodeP, nodeS}

(* Text nodes the library creates with document.createTextNode. *)
TextIds == 1 .. MaxTexts

RegionIds == 1 .. MaxRegions

(* The DomBinding that bind() returns for c0. *)
Root == 1

(* A child of a bound value, as preprocChildren classifies it. *)
Str(s) == [t |-> "text", s |-> s, n |-> 0]
Elem(n) == [t |-> "node", s |-> "", n |-> n]
Cell(c) == [t |-> "cell", s |-> c, n |-> 0]
Falsy == [t |-> "falsy", s |-> "", n |-> 0]
Undefined == [t |-> "undefined", s |-> "", n |-> 0]

(* The attributes a property bag of the applications names. *)
BagKeys == {"title", "lang"}

(* The property bag { k: s }. *)
Bag(k, s) == [t |-> k, s |-> s, n |-> 0]

(* An array as preprocChildren hands it on: the enhanced node list [n],    *)
(* given as such or made by makeNode from ['div', ...].                    *)
Made(n) == [t |-> "array", s |-> "", n |-> n]

(* An enhanced node list without nodes, as find() or makeEmpty() return. *)
MadeEmpty == [t |-> "array", s |-> "", n |-> 0]

(* The applications modelled, and the values each stores in its cells.  A  *)
(* value is the array #getReplacement spreads (a lone value is [value]).   *)
Apps == {"text", "blank", "attr", "list", "nest"}

ValuesOf(a, c) ==
    CASE a = "text" /\ c = "c0" -> {<<Str("A")>>, <<Str("B")>>}
      [] a = "blank" /\ c = "c0" -> {<<Str("A")>>, <<Falsy>>}
      [] a = "attr" /\ c = "c0" -> {<<Str("A")>>, <<Str("B")>>}
      [] a = "list" /\ c = "c0" ->
            {<<Elem(nodeA), Cell("cX")>>, <<Elem(nodeB)>>, <<Elem(nodeA), Elem(nodeB)>>,
             <<Elem(nodeA), Elem(nodeB), Cell("cX")>>}
      [] a = "list" /\ c = "cX" -> {<<Str("x")>>, <<Str("y")>>}
      [] a = "nest" /\ c = "c0" -> {<<Elem(nodeA), Cell("cX")>>, <<Cell("cX")>>}
      [] a = "nest" /\ c = "cX" -> {<<Cell("cY")>>}
      [] a = "nest" /\ c = "cY" -> {<<Str("p")>>, <<Str("q")>>}
      [] a = "title" /\ c = "c0" -> {<<Str("a")>>, <<Str("b")>>, <<Undefined>>}
      [] a = "place" /\ c = "c0" -> {<<Str("A")>>, <<Falsy>>}
      [] a = "inset" /\ c = "c0" -> {<<Elem(nodeA), Cell("cX"), Cell("cY")>>}
      [] a = "inset" /\ c = "cX" -> {<<Str("x")>>, <<Str("y")>>, <<Falsy>>}
      [] a = "inset" /\ c = "cY" -> {<<Str("p")>>, <<Str("q")>>}
      [] a = "bags" /\ c = "c0" ->
            {<<Str("x")>>, <<Bag("title", "A"), Str("x")>>,
             <<Bag("title", "A"), Bag("title", "B"), Elem(nodeA)>>,
             <<Bag("lang", "A"), Str("x"), Bag("title", "B")>>}
      [] a = "made" /\ c = "c0" ->
            {<<Elem(nodeB)>>, <<Made(nodeA)>>, <<Elem(nodeB), Made(nodeA)>>,
             <<Elem(nodeB), MadeEmpty>>}
      [] OTHER -> {<<Falsy>>}

(* The cells an application uses. *)
CellsOf(a) ==
    CASE a = "list" -> {"c0", "cX"}
      [] a = "nest" -> {"c0", "cX", "cY"}
      [] a = "inset" -> {"c0", "cX", "cY"}
      [] OTHER -> {"c0"}

(* DomBinding.#current: null, one node, one DomBinding, or an array. *)
NullCur == [t |-> "null", n |-> 0, items |-> <<>>]
One(t, n) == [t |-> t, n |-> n, items |-> <<>>]
Arr(items) == [t |-> "arr", n |-> 0, items |-> items]

FreeRegion == [used |-> FALSE, cell |-> "", cur |-> NullCur]

VARIABLES
    app,         \* which application is running
    cvalue,      \* NotifyingValue.#value of each cell
    clisteners,  \* EventsHandler.#listeners of each cell
    dom,         \* container.childNodes
    text,        \* data of each text node
    attr,        \* the container's title attribute
    props,       \* the container's other attributes
    names,       \* the attribute names the browser's setAttribute accepts
    regions,     \* the DomBinding instances: #value and #current
    frames,      \* callbacks given to window.requestAnimationFrame, not yet run
    thrown,      \* what the last callback threw
    torn,        \* regions #hideAll was called on in the last callback
    before,      \* the container and the region as the last callback found them
    ran          \* the last step of the application or the browser

regionVars == <<app, cvalue, clisteners, dom, text, attr, props, names, regions, frames,
               thrown, torn, before, ran>>

(***************************************************************************)
(* DomClassBinding (src/unnamed/part_000, lines 498-534): one element      *)
(* whose class attribute follows a cell that holds a class string.  A      *)
(* string is the sequence of its characters.                               *)
(***************************************************************************)
VARIABLES
    classValue,    \* the class string the bound cell holds
    classList,     \* element.classList: the set of its tokens
    currentList,   \* DomClassBinding.#currentList
    classFrames,   \* callbacks of the binding waiting for an animation frame
    classRan,      \* the latest callback: its string, the one before, what it threw
    everBound      \* the tokens of the strings the callbacks were handed so far

classVars == <<classValue, classList, currentList, classFrames, classRan, everBound>>

NoClassRan == [s |-> <<>>, prev |-> <<>>, err |-> "none", n |-> 0]

(* No DomClassBinding has been constructed. *)
ClassUnbound ==
    /\ classValue = <<>>
    /\ classList = {}
    /\ currentList = <<>>
    /\ classFrames = <<>>
    /\ classRan = NoClassRan
    /\ everBound = {}

(***************************************************************************)
(* IntervalFunction and AnimationState (src/IntervalFunction.js): one      *)
(* object, the timer setInterval gave it, the animation frame callbacks it *)
(* asked for, and the promise runAsPromise returned.                       *)
(***************************************************************************)
VARIABLES
    started,       \* the arguments of the runAsPromise call, or NotStarted
    interval,      \* this.interval: the id of the timer, 0 for null
    timer,         \* the timer of the platform: whether it is active, its period
    passState,     \* this.passState
    effect,        \* AnimationState.effect
    pendingFrame,  \* AnimationState.pending
    raf,           \* animation frame callbacks requested and not yet run
    ticks,         \* how many times the timer fired
    runs,          \* the runner's invocations: what it received and returned
    resolved       \* how many times resolve() was called

timerVars == <<started, interval, timer, passState, effect, pendingFrame, raf, ticks, runs,
               resolved>>

(* The time argument left out of the call (undefined). *)
Omitted == -1

NotStarted == [called |-> FALSE, time |-> Omitted, details |-> "undefined"]

NoTimer == [on |-> FALSE, period |-> 0]

(* new IntervalFunction() and new AnimationState(): interval null, effect  *)
(* 0, pending false; nothing runs yet.                                     *)
NoInterval ==
    /\ started = NotStarted
    /\ interval = 0
    /\ timer = NoTimer
    /\ passState = "undefined"
    /\ effect = 0
    /\ pendingFrame = FALSE
    /\ raf = 0
    /\ ticks = 0
    /\ runs = <<>>
    /\ resolved = 0

domVars == <<regionVars, classVars, timerVars>>

cellVars == <<value, translator, heap, listeners, stack, log, reent, ret, got, lastOp, prevOp,
              asyncVars>>

NoStep == [op |-> "none", c |-> "", r |-> 0]

(* The attributes of the container besides title: lang, and the own keys   *)
(* of an enhanced array, its index "0" and the members enhanceElements     *)
(* gives it, which stand under the name of the last of them.               *)
OtherKeys == {"lang", "0", "___imogeneExtended___"}

NoProps == [k \in OtherKeys |-> "absent"]

NoBefore == [shown |-> <<>>, cur |-> NullCur, v |-> <<>>]

(* No DomBinding has been constructed. *)
NoRegions ==
    /\ app = "none"
    /\ cvalue = [c \in Cells |-> <<Falsy>>]
    /\ clisteners = [c \in Cells |-> <<>>]
    /\ dom = <<>>
    /\ text = [t \in TextIds |-> ""]
    /\ attr = "absent"
    /\ props = NoProps
    /\ names = "xml"
    /\ regions = [r \in RegionIds |-> FreeRegion]
    /\ frames = <<>>
    /\ thrown = "none"
    /\ torn = {}
    /\ before = NoBefore
    /\ ran = NoStep

(* Nothing is bound to the DOM. *)
Unbound == NoRegions /\ ClassUnbound /\ NoInterval

vars == <<cellVars, domVars>>

NoOp == [op |-> "none", arg |-> "-", force |-> FALSE, preValue |-> "-", preListeners |-> <<>>]

----------------------------------------------------------------------------
(* EventsHandler *)

(* Array.prototype.findIndex(l => l === listener): smallest index, 0 = none. *)
RECURSIVE findIndexFrom(_, _, _)
findIndexFrom(ls, listener, i) ==
    IF i > Len(ls) THEN 0
    ELSE IF ls[i] = listener THEN i
    ELSE findIndexFrom(ls, listener, i + 1)

findIndex(ls, listener) == findIndexFrom(ls, listener, 1)

(* Array.prototype.splice(index, 1) *)
splice(ls, index) == SubSeq(ls, 1, index - 1) \o SubSeq(ls, index + 1, Len(ls))

(* A variant of addListener that keeps one entry per listener. *)
addListenerOnce(ls, listener) ==
    IF \E i \in DOMAIN ls : ls[i] = listener THEN ls ELSE Append(ls, listener)

(* addListener: this.#listeners.push(listener) *)
addListener(ls, listener) == Append(ls, listener)

(* A variant of removeListener that filters out every occurrence. *)
removeListenerAll(ls, listener) == SelectSeq(ls, LAMBDA x : x # listener)

(* removeListener: findIndex, then splice when index >= 0 *)
removeListener(ls, listener) ==
    LET index == findIndex(ls, listener)
    IN IF index >= 1 THEN splice(ls, index) ELSE ls

(* A variant of clear that leaves the array as it is. *)
clearNothing == listeners

(* clear: this.#listeners = [] (a new array; the old one is not touched) *)
clear == <<>>

(* The array a dispatch frame iterates: the handler's current array while   *)
(* the field still refers to it, else the array as it was when clear()      *)
(* replaced it.                                                             *)
FrameArr(f) == IF f.live THEN listeners ELSE f.arr

(* A variant of dispatch whose loop starts at index 1. *)
NewFrameFromOne(arg) ==
    [k |-> 1, len |-> Len(listeners), arg |-> arg, live |-> TRUE, arr |-> <<>>]

(* dispatch(...args) up to its first await: Array.prototype.map reads the   *)
(* length once (len) and visits index k = 0 .. len-1 of the array object.   *)
NewFrame(arg) ==
    [k |-> 0, len |-> Len(listeners), arg |-> arg, live |-> TRUE, arr |-> <<>>]

(* Variants of Promise.all: settled by the first promise that settles;     *)
(* rejections ignored.                                                     *)
promiseRace(ps) ==
    IF ps = <<>> THEN "resolved"
    ELSE IF \E i \in DOMAIN ps : ps[i] = "rejected" THEN "rejected"
    ELSE IF \E i \in DOMAIN ps : ps[i] = "resolved" THEN "resolved"
    ELSE "pending"
promiseAllSettled(ps) ==
    IF \A i \in DOMAIN ps : ps[i] # "pending" THEN "resolved" ELSE "pending"

(* await Promise.all(retValues.filter(v => v instanceof Promise)): rejected *)
(* once one promise is rejected, resolved once all are resolved (at once    *)
(* when there is none), pending otherwise.                                  *)
promiseAll(ps) ==
    IF \E i \in DOMAIN ps : ps[i] = "rejected" THEN "rejected"
    ELSE IF \A i \in DOMAIN ps : ps[i] = "resolved" THEN "resolved"
    ELSE "pending"

----------------------------------------------------------------------------
(* NotifyingValue *)

(* A variant of get() that returns the stored value untranslated. *)
getRaw == value

(* get(): this.#translator(this.#value) *)
get == translator[value]

(* Variants of set()'s condition: the comparison inverted; force ignored. *)
setChangesInverted(old, new, force) == old = new \/ force
setChangesNoForce(old, new, force) == old # new

(* the condition of set(): this.#value !== value || force *)
setChanges(old, new, force) == old # new \/ force

TypeOK ==
    /\ value \in Values
    /\ translator \in Translators
    /\ heap \in [Objs -> {0, 1}]
    /\ listeners \in Seq(Listeners)
    /\ Len(listeners) <= MaxListeners

Init ==
    /\ value \in Values
    /\ translator \in Translators
    /\ heap = [o \in Objs |-> 0]
    /\ listeners = <<>>
    /\ stack = <<>>
    /\ log = <<>>
    /\ reent = <<>>
    /\ ret = "none"
    /\ got = "none"
    /\ lastOp = NoOp
    /\ prevOp = [call |-> NoOp, log |-> <<>>, reent |-> <<>>]
    /\ proms = <<>>
    /\ outcome = "none"
    /\ threw = FALSE
    /\ Unbound

Idle == stack = <<>>

(* Bookkeeping at the start of a call made by the application. *)
Begin(op, arg, force) ==
    /\ Idle
    /\ prevOp' = [call |-> lastOp, log |-> log, reent |-> reent]
    /\ lastOp' = [op |-> op, arg |-> arg, force |-> force,
                  preValue |-> value, preListeners |-> listeners]
    /\ reent' = <<>>

(* cell.addListener(l) *)
AddListener(l) ==
    /\ Len(listeners) < MaxListeners
    /\ Begin("addListener", l, FALSE)
    /\ listeners' = addListener(listeners, l)
    /\ log' = <<>>
    /\ ret' = "undefined"
    /\ UNCHANGED domVars
    /\ UNCHANGED <<value, translator, heap, stack, got, asyncVars>>

(* cell.removeListener(l) *)
RemoveListener(l) ==
    /\ Begin("removeListener", l, FALSE)
    /\ listeners' = removeListener(listeners, l)
    /\ log' = <<>>
    /\ ret' = "undefined"
    /\ UNCHANGED domVars
    /\ UNCHANGED <<value, translator, heap, stack, got, asyncVars>>

(* cell.clearEvents() *)
ClearEvents ==
    /\ Begin("clearEvents", "-", FALSE)
    /\ listeners' = clear
    /\ log' = <<>>
    /\ ret' = "undefined"
    /\ UNCHANGED domVars
    /\ UNCHANGED <<value, translator, heap, stack, got, asyncVars>>

(* cell.get() *)
Get ==
    /\ Begin("get", "-", FALSE)
    /\ got' = get
    /\ log' = <<>>
    /\ ret' = "value"
    /\ UNCHANGED domVars
    /\ UNCHANGED <<value, translator, heap, listeners, stack, asyncVars>>

(* cell.forceTrigger(): dispatch(translator(value)) *)
ForceTrigger ==
    /\ Begin("forceTrigger", "-", FALSE)
    /\ stack' = <<NewFrame(translator[value])>>
    /\ log' = <<>>
    /\ ret' = "running"
    /\ proms' = <<>>
    /\ outcome' = "running"
    /\ threw' = FALSE
    /\ UNCHANGED domVars
    /\ UNCHANGED <<value, translator, heap, listeners, got>>

(* cell.set(v, force) *)
Set(v, force) ==
    /\ Begin("set", v, force)
    /\ log' = <<>>
    /\ IF setChanges(value, v, force)
       THEN /\ value' = v
            /\ stack' = <<NewFrame(translator[v])>>
            /\ ret' = "running"
            /\ proms' = <<>>
            /\ outcome' = "running"
            /\ threw' = FALSE
       ELSE /\ ret' = "undefined"
            /\ UNCHANGED <<value, stack, asyncVars>>
    /\ UNCHANGED domVars
    /\ UNCHANGED <<translator, heap, listeners, got>>

(* The application changes an object in place (no call into the cell). *)
Mutate(o) ==
    /\ Begin("mutate", o, FALSE)
    /\ heap' = [heap EXCEPT ![o] = 1 - heap[o]]
    /\ log' = <<>>
    /\ ret' = "undefined"
    /\ UNCHANGED domVars
    /\ UNCHANGED <<value, translator, listeners, stack, got, asyncVars>>

----------------------------------------------------------------------------
(* dispatch's loop: one step visits index k of the frame's array. *)

Top == stack[Len(stack)]

(* Index k holds a listener (k < current length); after a splice the array  *)
(* is shorter than len and map skips the missing indices.                   *)
Present(f) == f.k + 1 <= Len(FrameArr(f))

Advance(s) == [s EXCEPT ![Len(s)].k = @ + 1]

(* map calls the listener at index k, which returns without calling back    *)
(* into the cell; or index k is missing and map moves on.                   *)
Invoke ==
    /\ ~Idle
    /\ Top.k < Top.len
    /\ log' = IF Present(Top)
              THEN Append(log, <<FrameArr(Top)[Top.k + 1], Top.arg>>)
              ELSE log
    /\ stack' = Advance(stack)
    /\ UNCHANGED domVars
    /\ UNCHANGED <<value, translator, heap, listeners, reent, ret, got, lastOp, prevOp, asyncVars>>

(* map reached len: dispatch awaits Promise.all of the promises among the  *)
(* listeners' results and its own promise is what the call returns.        *)
DispatchReturn ==
    /\ ~Idle
    /\ Top.k = Top.len
    /\ stack' = SubSeq(stack, 1, Len(stack) - 1)
    /\ ret' = IF Len(stack) = 1 THEN "promise" ELSE ret
    /\ outcome' = IF Len(stack) = 1 THEN promiseAll(proms) ELSE outcome
    /\ UNCHANGED domVars
    /\ UNCHANGED <<value, translator, heap, listeners, log, reent, got, lastOp, prevOp,
                   proms, threw>>

Next ==
    \/ \E l \in Listeners : AddListener(l)
    \/ \E l \in Listeners : RemoveListener(l)
    \/ ClearEvents
    \/ Get
    \/ ForceTrigger
    \/ \E v \in Values, force \in BOOLEAN : Set(v, force)
    \/ \E o \in Objs : Mutate(o)
    \/ Invoke
    \/ DispatchReturn

Spec == Init /\ [][Next]_vars

----------------------------------------------------------------------------
(* Listeners that call back into the cell while dispatch is invoking them. *)

(* The listener at index k is called and its body makes one call `call`    *)
(* with argument x on the cell before it returns.                          *)
Reenter(call, x, ls) ==
    /\ ~Idle
    /\ Top.k < Top.len
    /\ Present(Top)
    /\ Len(reent) < MaxReentrant
    /\ log' = Append(log, <<FrameArr(Top)[Top.k + 1], Top.arg>>)
    /\ reent' = Append(reent, [by |-> FrameArr(Top)[Top.k + 1], call |-> call, arg |-> x])
    /\ listeners' = ls
    /\ UNCHANGED domVars
    /\ UNCHANGED <<value, translator, heap, ret, got, lastOp, prevOp, asyncVars>>

(* ... and its body calls cell.removeListener(x): the splice acts on the   *)
(* array that every live frame is iterating.                               *)
InvokeRemoving(x) ==
    /\ Reenter("removeListener", x, removeListener(listeners, x))
    /\ stack' = Advance(stack)

(* ... and its body calls cell.addListener(x): push on the same array. *)
InvokeAdding(x) ==
    /\ Len(listeners) < MaxListeners
    /\ Reenter("addListener", x, addListener(listeners, x))
    /\ stack' = Advance(stack)

(* ... and its body calls cell.clearEvents(): the field gets a new array;  *)
(* frames that were iterating the old one keep it, as it is now.           *)
InvokeClearing ==
    /\ Reenter("clearEvents", "-", clear)
    /\ stack' = Advance([i \in DOMAIN stack |->
                    IF stack[i].live
                    THEN [stack[i] EXCEPT !.live = FALSE, !.arr = listeners]
                    ELSE stack[i]])

NextReentrant ==
    \/ \E l \in Listeners : AddListener(l)
    \/ \E l \in Listeners : RemoveListener(l)
    \/ ClearEvents
    \/ ForceTrigger
    \/ \E v \in Values, force \in BOOLEAN : Set(v, force)
    \/ Invoke
    \/ \E x \in Listeners : InvokeRemoving(x)
    \/ \E x \in Listeners : InvokeAdding(x)
    \/ InvokeClearing
    \/ DispatchReturn

SpecReentrant == Init /\ [][NextReentrant]_vars

----------------------------------------------------------------------------
(* Listeners that set the cell while dispatch is invoking them. *)

(* The listener at index k is called and its body calls cell.set(v) before *)
(* it returns: when the value changes, set dispatches at once, and the     *)
(* dispatch that called the listener goes on with its next index only      *)
(* after that inner dispatch has returned.                                 *)
InvokeSetting(v) ==
    /\ ~Idle
    /\ Top.k < Top.len
    /\ Present(Top)
    /\ Len(reent) < MaxReentrant
    /\ log' = Append(log, <<FrameArr(Top)[Top.k + 1], Top.arg>>)
    /\ reent' = Append(reent, [by |-> FrameArr(Top)[Top.k + 1], call |-> "set", arg |-> v])
    /\ IF setChanges(value, v, FALSE)
       THEN /\ value' = v
            /\ stack' = Append(Advance(stack), NewFrame(translator[v]))
       ELSE /\ UNCHANGED value
            /\ stack' = Advance(stack)
    /\ UNCHANGED domVars
    /\ UNCHANGED <<translator, heap, listeners, ret, got, lastOp, prevOp, asyncVars>>

NextSetting ==
    \/ \E l \in Listeners : AddListener(l)
    \/ ForceTrigger
    \/ \E v \in Prims : Set(v, FALSE)
    \/ Invoke
    \/ \E v \in Prims : InvokeSetting(v)
    \/ DispatchReturn

SpecSetting == Init /\ [][NextSetting]_vars

----------------------------------------------------------------------------
(* Listeners that return a promise or throw. *)

(* map calls the listener at index k, which returns a promise. *)
InvokeAsync ==
    /\ ~Idle
    /\ Top.k < Top.len
    /\ Present(Top)
    /\ log' = Append(log, <<FrameArr(Top)[Top.k + 1], Top.arg>>)
    /\ proms' = Append(proms, "pending")
    /\ stack' = Advance(stack)
    /\ UNCHANGED domVars
    /\ UNCHANGED <<value, translator, heap, listeners, reent, ret, got, lastOp, prevOp,
                   outcome, threw>>

(* map calls the listener at index k, which throws: the exception leaves   *)
(* map and the body of the async function dispatch, whose promise is       *)
(* rejected; the listeners at the later indices are not called.            *)
InvokeThrowing ==
    /\ ~Idle
    /\ Top.k < Top.len
    /\ Present(Top)
    /\ log' = Append(log, <<FrameArr(Top)[Top.k + 1], Top.arg>>)
    /\ stack' = SubSeq(stack, 1, Len(stack) - 1)
    /\ threw' = TRUE
    /\ outcome' = "rejected"
    /\ ret' = "promise"
    /\ UNCHANGED domVars
    /\ UNCHANGED <<value, translator, heap, listeners, reent, got, lastOp, prevOp, proms>>

(* A promise returned by a listener settles; a dispatch still awaiting      *)
(* Promise.all settles accordingly.                                         *)
Settle(i, how) ==
    /\ Idle
    /\ proms[i] = "pending"
    /\ proms' = [proms EXCEPT ![i] = how]
    /\ outcome' = IF outcome = "pending" THEN promiseAll(proms') ELSE outcome
    /\ UNCHANGED domVars
    /\ UNCHANGED <<value, translator, heap, listeners, stack, log, reent, ret, got,
                   lastOp, prevOp, threw>>

Resolve(i) == Settle(i, "resolved")

Reject(i) == Settle(i, "rejected")

NextAsync ==
    \/ \E l \in Listeners : AddListener(l)
    \/ ForceTrigger
    \/ \E v \in Prims : Set(v, FALSE)
    \/ Invoke
    \/ InvokeAsync
    \/ InvokeThrowing
    \/ DispatchReturn
    \/ \E i \in DOMAIN proms : Resolve(i)
    \/ \E i \in DOMAIN proms : Reject(i)

SpecAsync == Init /\ [][NextAsync]_vars

----------------------------------------------------------------------------
(***************************************************************************)
(* The DOM.  A machine m is the state one callback works on; m.err is the  *)
(* exception that is propagating (the statements after a throw are         *)
(* skipped, the effects before it stay).                                   *)
(***************************************************************************)

Range(seq) == {seq[i] : i \in DOMAIN seq}

Min(S) == CHOOSE x \in S : \A y \in S : x <= y

Attached(d, n) == n \in Range(d)

IndexOf(d, n) == CHOOSE i \in DOMAIN d : d[i] = n

keepChild(d, n) == d

(* parent.removeChild(n), n.remove() *)
removeChild(d, n) == SelectSeq(d, LAMBDA x : x # n)

(* parent.appendChild(n): a node already in the tree is moved. *)
appendChild(d, n) == Append(removeChild(d, n), n)

(* parent.insertBefore(n, ref): a node already in the tree is moved. *)
insertBefore(d, n, ref) ==
    LET d1 == removeChild(d, n)
        i == IndexOf(d1, ref)
    IN SubSeq(d1, 1, i - 1) \o <<n>> \o SubSeq(d1, i, Len(d1))

(* el.replaceWith(...reps): nothing when el has no parent. *)
replaceWith(d, el, reps) ==
    IF ~Attached(d, el) THEN d
    ELSE LET i == IndexOf(d, el)
             keep(x) == x \notin Range(reps)
         IN SelectSeq(SubSeq(d, 1, i - 1), keep) \o reps
                \o SelectSeq(SubSeq(d, i + 1, Len(d)), keep)

Machine ==
    [ls |-> clisteners, dom |-> dom, text |-> text, attr |-> attr, props |-> props,
     regions |-> regions,
     frames |-> frames, err |-> "none", full |-> FALSE, torn |-> {}, made |-> {},
     new |-> 0]

Ok(m) == m.err = "none" /\ ~m.full

Throw(m, e) == [m EXCEPT !.err = e]

(* Text nodes a DomBinding holds in #current. *)
HeldBy(rg) ==
    LET nodes(cur) == IF cur.t = "node" THEN {cur.n}
                      ELSE {cur.items[i].n : i \in {j \in DOMAIN cur.items : cur.items[j].t = "node"}}
    IN UNION {nodes(rg[r].cur) : r \in {q \in RegionIds : rg[q].used}}

(* document.createTextNode(s); the node is m.new. *)
createTextNode(m, s) ==
    LET free == TextIds \ (Range(m.dom) \cup HeldBy(m.regions) \cup m.made)
    IN IF free = {} THEN [m EXCEPT !.full = TRUE]
       ELSE [m EXCEPT !.text[Min(free)] = s, !.made = @ \cup {Min(free)}, !.new = Min(free)]

(* new DomBinding(value, container, insert, exist, false); the region is m.new. *)
newDomBinding(m, c, exist) ==
    LET free == {r \in RegionIds : ~m.regions[r].used}
    IN IF free = {} THEN [m EXCEPT !.full = TRUE]
       ELSE [m EXCEPT !.regions[Min(free)] = [used |-> TRUE, cell |-> c, cur |-> exist],
                      !.new = Min(free)]

(* The regions below region r, r included. *)
RECURSIVE Subtree(_, _)
Subtree(rg, r) ==
    LET cur == rg[r].cur
        below == IF cur.t = "bind" THEN {cur.n}
                 ELSE {cur.items[i].n : i \in {j \in DOMAIN cur.items : cur.items[j].t = "bind"}}
    IN {r} \cup UNION {Subtree(rg, q) : q \in below}

(* EventsHandler.dispatch of a cell whose listeners are those of bindings: *)
(* each asks for one animation frame with the value it was handed.         *)
dispatchFrames(ls, v) == [i \in DOMAIN ls |-> [k |-> ls[i].k, r |-> ls[i].r, v |-> v]]

(* The translator of a cell, applied by forceTrigger: x => x, but for the  *)
(* title of application "title", whose translator is x => x &&            *)
(* x.toUpperCase().                                                        *)
toUpperCase(str) == IF str = "a" THEN "A" ELSE IF str = "b" THEN "B" ELSE str

untranslated(c, v) == v

translated(c, v) ==
    IF app = "title" /\ c = "c0"
    THEN [i \in DOMAIN v |-> IF v[i].t = "text" THEN Str(toUpperCase(v[i].s)) ELSE v[i]]
    ELSE v

(* #hideAll: its first statement assigns the undeclared name hideOne in a  *)
(* class body, which is strict code, so the call throws ReferenceError     *)
(* before anything is hidden or detached.                                  *)
hideAll(m, r) ==
    [m EXCEPT !.err = "ReferenceError", !.torn = @ \cup Subtree(m.regions, r)]

(* The callback of #reduceCurrent's reduce for the elements after the      *)
(* first (p is set): remove an element, removeChild a text node through    *)
(* its parentElement (TypeError when it has none), hideAll a DomBinding.   *)
RECURSIVE reduceRest(_, _, _)
reduceRest(m, items, i) ==
    IF i > Len(items) \/ ~Ok(m) THEN m
    ELSE LET v == items[i]
             m1 == CASE v.t = "node" /\ v.n \in Elements ->
                            [m EXCEPT !.dom = removeChild(@, v.n)]
                      [] v.t = "node" /\ v.n \notin Elements ->
                            IF Attached(m.dom, v.n)
                            THEN [m EXCEPT !.dom = removeChild(@, v.n)]
                            ELSE Throw(m, "TypeError")
                      [] OTHER -> hideAll(m, v.n)
         IN reduceRest(m1, items, i + 1)

(* this.#current = current, unless an exception is propagating. *)
setCurrent(m, r, current) ==
    IF Ok(m) THEN [m EXCEPT !.regions[r].cur = current] ELSE m

RECURSIVE doReplaceWith(_, _, _)
RECURSIVE reduceCurrent(_, _)
RECURSIVE adoptCurrent(_, _, _, _)

(* #insert of each replacement, in order. *)
RECURSIVE insertEach(_, _, _)
insertEach(d, reps, i) ==
    IF i > Len(reps) THEN d ELSE insertEach(appendChild(d, reps[i]), reps, i + 1)

(* The replacements put before the anchor last to first. *)
RECURSIVE insertEachReversed(_, _, _, _)
insertEachReversed(d, reps, ref, i) ==
    IF i > Len(reps) THEN d
    ELSE insertBefore(insertEachReversed(d, reps, ref, i + 1), reps[i], ref)

(* parentElement.insertBefore(replacement, current) of each, in order. *)
RECURSIVE insertEachBefore(_, _, _, _)
insertEachBefore(d, reps, ref, i) ==
    IF i > Len(reps) THEN d
    ELSE insertEachBefore(insertBefore(d, reps[i], ref), reps, ref, i + 1)

doReplaceWith(m, r, reps) ==
    IF ~Ok(m) THEN m
    ELSE LET cur == m.regions[r].cur
         IN CASE cur.t = "node" /\ cur.n \in Elements ->
                     [m EXCEPT !.dom = replaceWith(@, cur.n, reps)]
              [] cur.t = "node" /\ cur.n \notin Elements ->
                     IF Attached(m.dom, cur.n)
                     THEN [m EXCEPT !.dom = removeChild(insertEachBefore(@, reps, cur.n, 1),
                                                        cur.n)]
                     ELSE Throw(m, "TypeError")
              [] cur.t = "bind" -> adoptCurrent(reduceCurrent(m, cur.n), r, cur.n, reps)
              [] cur.t = "arr" -> doReplaceWith(reduceCurrent(m, r), r, reps)
              [] OTHER -> [m EXCEPT !.dom = insertEach(@, reps, 1)]

(* this.#current = this.#current.#current; this.#doReplaceWith(...) *)
adoptCurrent(m, r, q, reps) ==
    doReplaceWith(setCurrent(m, r, m.regions[q].cur), r, reps)

(* The array part of #reduceCurrent: the first element is kept. *)
reduceArray(m, r) ==
    LET cur == m.regions[r].cur
    IN IF cur.t # "arr" THEN m
       ELSE IF cur.items = <<>> THEN setCurrent(m, r, NullCur)
       ELSE setCurrent(reduceRest(m, cur.items, 2), r, One(cur.items[1].t, cur.items[1].n))

(* tempSpan takes the place of what is left. *)
putTempSpan(m, r) == setCurrent(doReplaceWith(m, r, <<m.new>>), r, One("node", m.new))

anchorCurrent(m, r) ==
    IF ~Ok(m) \/ m.regions[r].cur.t = "null" THEN m
    ELSE putTempSpan(createTextNode(m, ""), r)

reduceCurrent(m, r) == IF ~Ok(m) THEN m ELSE anchorCurrent(reduceArray(m, r), r)

(* preprocChildren: falsy children are skipped, a string becomes a text    *)
(* node, a Node or a NotifyingValue is taken as it is.                     *)
RECURSIVE preprocChildren(_, _, _, _)
RECURSIVE pushTextNode(_, _, _, _)
preprocChildren(m, children, i, p) ==
    IF i > Len(children) \/ ~Ok(m) THEN [m |-> m, p |-> p]
    ELSE LET child == children[i]
         IN CASE child.t \in {"falsy", "undefined"} -> preprocChildren(m, children, i + 1, p)
              [] child.t = "text" -> pushTextNode(createTextNode(m, child.s), children, i, p)
              [] OTHER -> preprocChildren(m, children, i + 1, Append(p, child))

pushTextNode(m, children, i, p) == preprocChildren(m, children, i + 1, Append(p, Elem(m.new)))

(* The keys of the properties object #getReplacement accumulates, in the   *)
(* order Object.keys lists them: an index first.  title and lang are set   *)
(* independently of each other, so their order among themselves is fixed   *)
(* here without loss.                                                      *)
PropKeys == <<"0", "title", "lang", "___imogeneExtended___">>

(* { }: no key has a value yet. *)
NoBag == [k \in Range(PropKeys) |-> "unset"]

(* Object.assign(p.props, v.toappend): the own enumerable keys of a        *)
(* property bag, or of an array, which is an Object as well.               *)
assign(p, u) ==
    IF u.t = "array"
    THEN [p EXCEPT !["0"] = IF u.n # 0 THEN "node" ELSE @,
                   !["___imogeneExtended___"] = "true"]
    ELSE [p EXCEPT ![u.t] = u.s]

(* The reduce of #getReplacement over the preprocessed children. *)
RECURSIVE getReplacementFrom(_, _, _)

(* let textdom = document.createTextNode(''); let bind = new DomBinding(..) *)
pushBind(g, m, textdom) ==
    [m |-> m, doms |-> Append(g.doms, textdom), binds |-> Append(g.binds, m.new),
     curr |-> Append(g.curr, [t |-> "bind", n |-> m.new]), props |-> g.props]

bindChild(g, m, c) ==
    IF Ok(m) THEN pushBind(g, newDomBinding(m, c, One("node", m.new)), m.new)
    ELSE [g EXCEPT !.m = m]

getReplacementFrom(g, pre, i) ==
    IF i > Len(pre) \/ ~Ok(g.m) THEN g
    ELSE IF pre[i].t = "node"
         THEN getReplacementFrom([g EXCEPT !.doms = Append(@, pre[i].n),
                                           !.curr = Append(@, [t |-> "node", n |-> pre[i].n])],
                                 pre, i + 1)
         ELSE IF pre[i].t = "cell"
         THEN getReplacementFrom(bindChild(g, createTextNode(g.m, ""), pre[i].s), pre, i + 1)
         ELSE getReplacementFrom([g EXCEPT !.props = assign(@, pre[i])], pre, i + 1)

reduceChildren(pre) ==
    getReplacementFrom([m |-> pre.m, doms |-> <<>>, binds |-> <<>>, curr |-> <<>>,
                        props |-> NoBag], pre.p, 1)

getReplacement(m, replaceWithValue) ==
    reduceChildren(preprocChildren(m, replaceWithValue, 1, <<>>))

RegionListenerOf(r) == [k |-> "region", r |-> r]

RECURSIVE create(_, _, _)

RECURSIVE createEach(_, _, _)
createEach(m, binds, i) ==
    IF i > Len(binds) \/ ~Ok(m) THEN m
    ELSE createEach(create(m, binds[i], <<>>), binds, i + 1)

(* el.setAttribute(key, s) on the container: InvalidCharacterError for a   *)
(* name the browser does not accept.                                       *)
setAttribute(m, key, s) ==
    IF key = "title" THEN [m EXCEPT !.attr = s]
    ELSE IF key = "0" /\ names = "xml" THEN Throw(m, "InvalidCharacterError")
    ELSE [m EXCEPT !.props[key] = s]

(* setProperties(this.#container, dowith.props), when props has a key. *)
RECURSIVE setProperties(_, _, _)
setProperties(m, p, i) ==
    IF i > Len(PropKeys) \/ ~Ok(m) THEN m
    ELSE setProperties(IF p[PropKeys[i]] = "unset" THEN m
                       ELSE setAttribute(m, PropKeys[i], p[PropKeys[i]]),
                       p, i + 1)

(* The part of #replace after #getReplacement. *)
install(dowith, r) ==
    createEach(setCurrent(IF dowith.doms # <<>>
                          THEN doReplaceWith(setProperties(dowith.m, dowith.props, 1), r,
                                             dowith.doms)
                          ELSE setProperties(dowith.m, dowith.props, 1),
                          r, Arr(dowith.curr)),
               dowith.binds, 1)

replaceIfListening(m, r, replaceWithValue) ==
    IF m.regions[r].cell = "" \/ RegionListenerOf(r) \in Range(m.ls[m.regions[r].cell])
    THEN install(getReplacement(reduceCurrent(m, r), replaceWithValue), r)
    ELSE m

(* #replace *)
replace(m, r, replaceWithValue) ==
    install(getReplacement(reduceCurrent(m, r), replaceWithValue), r)

(* #create of region r: addListener and forceTrigger when #value is a      *)
(* NotifyingValue, #replace at once with the value itself when it is not.  *)
listen(m, c, ls) ==
    [m EXCEPT !.ls[c] = ls, !.frames = @ \o dispatchFrames(ls, translated(c, cvalue[c]))]

createNothing(m, r, literal) == m

create(m, r, literal) ==
    IF m.regions[r].cell # ""
    THEN listen(m, m.regions[r].cell,
                addListener(m.ls[m.regions[r].cell], [k |-> "region", r |-> r]))
    ELSE replace(m, r, literal)

(* The callback setProperty hands to requestAnimationFrame: removeAttribute *)
(* for undefined, setAttribute for a string.                               *)
setProperty(m, v) ==
    [m EXCEPT !.attr = IF v[1].t = "undefined" THEN "absent" ELSE v[1].s]

(* Objects nothing refers to any more are forgotten: a DomBinding is alive *)
(* while a listener or a waiting callback closes over it, or a live        *)
(* DomBinding holds it in #current; a text node while it is attached or a  *)
(* live DomBinding holds it.                                               *)
Alive(m) ==
    LET byListener == {l.r : l \in {x \in UNION {Range(m.ls[c]) : c \in Cells} : x.k = "region"}}
        byFrame == {f.r : f \in {x \in Range(m.frames) : x.k = "region"}}
    IN UNION {Subtree(m.regions, r) : r \in {Root} \cup byListener \cup byFrame}

Forget(m) ==
    LET rg == [r \in RegionIds |-> IF r \in Alive(m) THEN m.regions[r] ELSE FreeRegion]
    IN [m EXCEPT !.regions = rg,
                 !.text = [t \in TextIds |->
                              IF t \in Range(m.dom) \cup HeldBy(rg) THEN m.text[t] ELSE ""]]

----------------------------------------------------------------------------
(* Bound: callbacks waiting for a frame when the application makes a call. *)
MaxFrames == 3

(* The cell model at rest, while the DOM binding is exercised. *)
Quiet ==
    /\ value = "false"
    /\ translator = Identity
    /\ heap = [o \in Objs |-> 0]
    /\ listeners = <<>>
    /\ stack = <<>>
    /\ log = <<>>
    /\ reent = <<>>
    /\ ret = "none"
    /\ got = "none"
    /\ lastOp = NoOp
    /\ prevOp = [call |-> NoOp, log |-> <<>>, reent |-> <<>>]
    /\ proms = <<>>
    /\ outcome = "none"
    /\ threw = FALSE

RegionListener(r) == [k |-> "region", r |-> r]
AttrListener == [k |-> "attr", r |-> 0]

(* The state after the application built its container.  "attr" is         *)
(* make('div', { title: c0 }, c0): setProperty adds its listener and       *)
(* triggers, then the DomBinding adds its own and triggers again.  The     *)
(* others are bind(c0, container).                                         *)
InitDom ==
    /\ Quiet
    /\ app \in Apps
    /\ \E v0 \in ValuesOf(app, "c0"), vX \in ValuesOf(app, "cX"), vY \in ValuesOf(app, "cY") :
           cvalue = [c \in Cells |-> IF c = "c0" THEN v0 ELSE IF c = "cX" THEN vX ELSE vY]
    /\ clisteners = [c \in Cells |->
                        IF c # "c0" THEN <<>>
                        ELSE IF app = "attr" THEN <<AttrListener, RegionListener(Root)>>
                        ELSE <<RegionListener(Root)>>]
    /\ dom = <<>>
    /\ text = [t \in TextIds |-> ""]
    /\ attr = "absent"
    /\ props = NoProps
    /\ names = "xml"
    /\ regions = [r \in RegionIds |->
                     IF r = Root THEN [used |-> TRUE, cell |-> "c0", cur |-> NullCur]
                     ELSE FreeRegion]
    /\ frames = IF app = "attr"
                THEN dispatchFrames(<<AttrListener>>, cvalue["c0"])
                         \o dispatchFrames(clisteners["c0"], cvalue["c0"])
                ELSE dispatchFrames(clisteners["c0"], cvalue["c0"])
    /\ thrown = "none"
    /\ torn = {}
    /\ before = NoBefore
    /\ ran = NoStep
    /\ ClassUnbound
    /\ NoInterval

(* The effects of one step on the DOM model. *)
Store(m) ==
    /\ clisteners' = m.ls
    /\ dom' = m.dom
    /\ text' = m.text
    /\ attr' = m.attr
    /\ props' = m.props
    /\ regions' = m.regions
    /\ frames' = m.frames
    /\ UNCHANGED <<app, names, cellVars, classVars, timerVars>>

Commit(m) == ~m.full /\ Store(Forget(m))

(* cell.set(v) by the application *)
DomSet(c, v) ==
    /\ Len(frames) < MaxFrames
    /\ v \in ValuesOf(app, c)
    /\ IF setChanges(cvalue[c], v, FALSE)
       THEN /\ cvalue' = [cvalue EXCEPT ![c] = v]
            /\ Commit([Machine EXCEPT
                          !.frames = @ \o dispatchFrames(clisteners[c], translated(c, v))])
       ELSE /\ UNCHANGED cvalue
            /\ Commit(Machine)
    /\ ran' = [op |-> "set", c |-> c, r |-> 0]
    /\ thrown' = "none"
    /\ torn' = {}
    /\ before' = NoBefore

(* cell.forceTrigger() by the application *)
DomForceTrigger(c) ==
    /\ Len(frames) < MaxFrames
    /\ Commit([Machine EXCEPT
                  !.frames = @ \o dispatchFrames(clisteners[c], translated(c, cvalue[c]))])
    /\ ran' = [op |-> "forceTrigger", c |-> c, r |-> 0]
    /\ thrown' = "none"
    /\ torn' = {}
    /\ before' = NoBefore
    /\ UNCHANGED cvalue

clearEventsKeeps(ls, c) == ls

(* NotifyingValue.clearEvents of cell c *)
clearEvents(ls, c) == [ls EXCEPT ![c] = clear]

(* cell.clearEvents() by the application *)
DomClearEvents(c) ==
    /\ Commit([Machine EXCEPT !.ls = clearEvents(@, c)])
    /\ ran' = [op |-> "clearEvents", c |-> c, r |-> 0]
    /\ thrown' = "none"
    /\ torn' = {}
    /\ before' = NoBefore
    /\ UNCHANGED cvalue

(* The browser runs the oldest waiting callback: () => this.#replace(v) of *)
(* a DomBinding, or () => setProperty(el, prop, v).                        *)
(* The children of the container: each node with its text. *)
Shown(d, tx) == [i \in DOMAIN d |-> [n |-> d[i], s |-> IF d[i] \in Elements THEN "" ELSE tx[d[i]]]]

Callback(f, m) ==
    /\ Commit(m)
    /\ thrown' = m.err
    /\ torn' = m.torn
    /\ before' = [shown |-> Shown(dom, text),
                  cur |-> IF f.k = "region" THEN regions[f.r].cur ELSE NullCur,
                  v |-> f.v]
    /\ ran' = [op |-> "frame", c |-> IF f.k = "region" THEN regions[f.r].cell ELSE "",
               r |-> f.r]
    /\ UNCHANGED cvalue

Popped == [Machine EXCEPT !.frames = Tail(frames)]

RunFrame ==
    /\ frames # <<>>
    /\ Callback(Head(frames),
                IF Head(frames).k = "region"
                THEN replace(Popped, Head(frames).r, Head(frames).v)
                ELSE setProperty(Popped, Head(frames).v))

(* The application sets any of its cells; it forces and clears the cell it *)
(* bound to the container.                                                 *)
NextDom ==
    \/ \E c \in CellsOf(app) : \E v \in ValuesOf(app, c) : DomSet(c, v)
    \/ DomForceTrigger("c0")
    \/ DomClearEvents("c0")
    \/ RunFrame

SpecDom == InitDom /\ [][NextDom]_vars

----------------------------------------------------------------------------
(***************************************************************************)
(* Applications that start from a container with content, bind a value     *)
(* that is not a NotifyingValue, or bind a cell to an attribute only.      *)
(***************************************************************************)

PageApps == {"literal", "title", "place", "inset", "bags", "made"}

(* The values application "literal" hands to bind. *)
Literals == {<<Str("A")>>, <<Elem(nodeA)>>, <<Elem(nodeA), Str("A")>>}

(* A container with children d, before anything is bound. *)
Page(d) ==
    [ls |-> [c \in Cells |-> <<>>], dom |-> d, text |-> [t \in TextIds |-> ""],
     attr |-> "absent", props |-> NoProps, regions |-> [r \in RegionIds |-> FreeRegion],
     frames |-> <<>>,
     err |-> "none", full |-> FALSE, torn |-> {}, made |-> {}, new |-> 0]

(* The container each application starts from. *)
ContainerOf(a) == IF a \in {"place", "inset", "bags", "made"} THEN <<nodeP, nodeS>> ELSE <<>>

(* bind(value, container, insert, exist): new DomBinding(...), doCreate true. *)
bind(m, c, literal, exist) == create(newDomBinding(m, c, exist), Root, literal)

(* setProperty(el, 'title', cell): addListener, then forceTrigger. *)
bindProperty(m, c) == listen(m, c, addListener(m.ls[c], AttrListener))

(* What the application has built when it starts:                          *)
(*   "literal"  bind(literal, container)                                   *)
(*   "title"    setProperties(container, { title: c0 })                    *)
(*   others     bind(c0, container, insert, [nodeP])                       *)
Built(a, literal) ==
    CASE a = "literal" -> bind(Page(ContainerOf(a)), "", literal, NullCur)
      [] a = "title" -> bindProperty(Page(ContainerOf(a)), "c0")
      [] OTHER -> bind(Page(ContainerOf(a)), "c0", <<>>,
                       Arr(<<[t |-> "node", n |-> nodeP]>>))

InitPage ==
    /\ Quiet
    /\ app \in PageApps
    /\ names \in IF app = "made" THEN {"xml", "relaxed"} ELSE {"xml"}
    /\ \E v0 \in ValuesOf(app, "c0"), vX \in ValuesOf(app, "cX"), vY \in ValuesOf(app, "cY") :
           cvalue = [c \in Cells |-> IF c = "c0" THEN v0 ELSE IF c = "cX" THEN vX ELSE vY]
    /\ \E literal \in IF app = "literal" THEN Literals ELSE {<<>>} :
           /\ before = [shown |-> Shown(ContainerOf(app), [t \in TextIds |-> ""]),
                        cur |-> NullCur, v |-> literal]
           /\ clisteners = Built(app, literal).ls
           /\ dom = Built(app, literal).dom
           /\ text = Built(app, literal).text
           /\ attr = Built(app, literal).attr
           /\ props = Built(app, literal).props
           /\ regions = Built(app, literal).regions
           /\ frames = Built(app, literal).frames
           /\ thrown = Built(app, literal).err
    /\ torn = {}
    /\ ran = [op |-> "bind", c |-> IF app = "literal" THEN "" ELSE "c0", r |-> Root]
    /\ ClassUnbound
    /\ NoInterval

SpecPage == InitPage /\ [][NextDom]_vars


----------------------------------------------------------------------------
(***************************************************************************)
(* DomClassBinding                                                         *)
(***************************************************************************)

(* Bound: callbacks of the class binding waiting for a frame when the      *)
(* application sets the cell.                                              *)
MaxClassFrames == 2

(* The class strings the application stores: '', 'a', 'b', 'a b', 'a  b'. *)
ClassStrings ==
    {<<>>, <<"a">>, <<"b">>, <<"a", " ", "b">>, <<"a", " ", " ", "b">>}

(* A class the element has from its markup; no bound string names it. *)
ownClass == <<"s">>

(* String.prototype.split(' '): the pieces between the blanks, empty ones  *)
(* included; '' gives [''].                                                *)
RECURSIVE splitFrom(_, _, _, _)
splitFrom(str, i, piece, out) ==
    IF i > Len(str) THEN Append(out, piece)
    ELSE IF str[i] = " " THEN splitFrom(str, i + 1, <<>>, Append(out, piece))
    ELSE splitFrom(str, i + 1, Append(piece, str[i]), out)

split(str) == splitFrom(str, 1, <<>>, <<>>)

(* The state a callback of the binding works on. *)
ClassMachine == [list |-> classList, err |-> "none"]

(* classList.remove(c) and classList.add(c): SyntaxError for the empty     *)
(* token.                                                                  *)
classRemove(m, c) ==
    IF m.err # "none" THEN m
    ELSE IF c = <<>> THEN [m EXCEPT !.err = "SyntaxError"]
    ELSE [m EXCEPT !.list = @ \ {c}]

classAdd(m, c) ==
    IF m.err # "none" THEN m
    ELSE IF c = <<>> THEN [m EXCEPT !.err = "SyntaxError"]
    ELSE [m EXCEPT !.list = @ \cup {c}]

(* cs.forEach(c => classList.remove(c)), cs.forEach(c => classList.add(c)) *)
RECURSIVE removeEach(_, _, _)
removeEach(m, cs, i) ==
    IF i > Len(cs) THEN m ELSE removeEach(classRemove(m, cs[i]), cs, i + 1)

RECURSIVE addEach(_, _, _)
addEach(m, cs, i) ==
    IF i > Len(cs) THEN m ELSE addEach(classAdd(m, cs[i]), cs, i + 1)

includes(cs, c) == \E i \in DOMAIN cs : cs[i] = c

(* DomClassBinding.#replace(newValue), up to the assignment of            *)
(* #currentList.                                                           *)
classReplace(m, current, newClasses) ==
    addEach(removeEach(m, SelectSeq(current, LAMBDA c : ~includes(newClasses, c)), 1),
            SelectSeq(newClasses, LAMBDA c : ~includes(current, c)), 1)

ClassQuiet == UNCHANGED <<cellVars, regionVars, timerVars>>

(* addClass(el, cell): new DomClassBinding(cell, el, true) adds its        *)
(* listener and forces the first notification.                             *)
InitClass ==
    /\ Quiet
    /\ NoRegions
    /\ NoInterval
    /\ classValue \in ClassStrings
    /\ classList = {ownClass}
    /\ currentList = <<>>
    /\ classFrames = <<classValue>>
    /\ classRan = NoClassRan
    /\ everBound = {}

(* cell.set(str) by the application: the listener asks for a frame when    *)
(* the string is another one.                                              *)
ClassSet(str) ==
    /\ Len(classFrames) < MaxClassFrames
    /\ setChanges(classValue, str, FALSE)
    /\ classValue' = str
    /\ classFrames' = Append(classFrames, str)
    /\ UNCHANGED <<classList, currentList, classRan, everBound>>
    /\ ClassQuiet

(* The browser runs the oldest waiting callback, () => this.#replace(v). *)
ClassFrame ==
    /\ classFrames # <<>>
    /\ LET newValue == Head(classFrames)
           m == classReplace(ClassMachine, currentList, split(newValue))
       IN /\ classList' = m.list
          /\ currentList' = IF m.err = "none" THEN split(newValue) ELSE currentList
          /\ classRan' = [s |-> newValue, prev |-> classRan.s, err |-> m.err,
                          n |-> IF classRan.n < 2 THEN classRan.n + 1 ELSE 2]
          /\ everBound' = everBound \cup Range(split(newValue))
    /\ classFrames' = Tail(classFrames)
    /\ UNCHANGED classValue
    /\ ClassQuiet

NextClass ==
    \/ \E str \in ClassStrings : ClassSet(str)
    \/ ClassFrame

SpecClass == InitClass /\ [][NextClass]_vars

(***************************************************************************)
(* IntervalFunction and AnimationState                                     *)
(***************************************************************************)

(* Bound: how many times the timer fires. *)
MaxTicks == 3

(* Bound: the largest time handed to runAsPromise. *)
MaxTime == 12

(* The time argument: omitted, or an integer from 0.  The times are far    *)
(* below 2^31, where the conversion of | to a 32-bit integer changes       *)
(* nothing but undefined, which it makes 0.                                *)
Times == {Omitted} \cup (0 .. MaxTime)

(* The states handed from frame to frame. *)
Details == {"d0", "d1"}

(* What a runner does in one call: it returns true, an object (with        *)
(* continue true, false or absent), false or nothing, or it throws.        *)
RetTrue == [t |-> "true", continue |-> "none", details |-> "none"]

RetObject(c, d) == [t |-> "object", continue |-> c, details |-> d]

RetFalse == [t |-> "false", continue |-> "none", details |-> "none"]

RetNothing == [t |-> "undefined", continue |-> "none", details |-> "none"]

RetThrows == [t |-> "throws", continue |-> "none", details |-> "none"]

Rets ==
    {RetTrue, RetFalse, RetNothing, RetThrows, RetObject("false", "none"),
     RetObject("none", "none")}
        \cup {RetObject("true", d) : d \in Details}

truthy(r) == r.t \in {"true", "object"}

(* time || 10 *)
orTen(time) == IF time \in {Omitted, 0} THEN 10 ELSE time

ToInt32(time) == IF time = Omitted THEN 0 ELSE time

RECURSIVE BitOr(_, _)
(* a | b on the naturals. *)
BitOr(a, b) ==
    IF a = 0 THEN b
    ELSE IF b = 0 THEN a
    ELSE (IF a % 2 = 1 \/ b % 2 = 1 THEN 1 ELSE 0) + 2 * BitOr(a \div 2, b \div 2)

(* time | 10 *)
bitOrTen(time) == BitOr(ToInt32(time), 10)

(* A clearInterval that leaves the timer running. *)
leaveInterval(t, id) == t

(* clearInterval(id): the timer with that id fires no more. *)
clearInterval(t, id) == IF id # 0 THEN [t EXCEPT !.on = FALSE] ELSE t

(* evalparams(this.passState): the application's function; here it hands  *)
(* the runner the state it was evaluated with.                             *)
evalparams(state) == <<state>>

(* The object while a frame runs; go is what tryFrame returns. *)
IntervalMachine == [interval |-> interval, timer |-> timer, passState |-> passState, go |-> TRUE]

(* IntervalFunction.tryFrame after the runner returned r. *)
tryFrame(o, r) ==
    IF o.interval # 0
    THEN IF truthy(r) /\ r.continue = "true"
         THEN [o EXCEPT !.passState = r.details]
         ELSE IF r.t # "true" \/ (truthy(r) /\ r.continue = "false")
              THEN [o EXCEPT !.timer = clearInterval(o.timer, o.interval),
                             !.interval = 0,
                             !.go = FALSE]
              ELSE o
    ELSE o

(* The rest of a frame once the runner was called with params: a throw     *)
(* leaves the callback, a result goes through tryFrame, and                *)
(* `tryFrame(...) || resolve()` resolves when tryFrame returns false.      *)
frame(params, r) ==
    LET o == IF r.t = "throws" THEN IntervalMachine ELSE tryFrame(IntervalMachine, r)
    IN /\ runs' = Append(runs, [state |-> passState, params |-> params, ret |-> r,
                                 at |-> ticks'])
       /\ interval' = o.interval
       /\ timer' = o.timer
       /\ passState' = o.passState
       /\ resolved' = IF o.go THEN resolved ELSE resolved + 1

TimerQuiet == UNCHANGED <<cellVars, regionVars, classVars>>

(* new IntervalFunction() or new AnimationState() in a page that has      *)
(* nothing else.                                                           *)
InitTimer == Quiet /\ Unbound

(* IntervalFunction.start *)
start(period, startdetails) ==
    /\ passState' = startdetails
    /\ interval' = 1
    /\ timer' = [on |-> TRUE, period |-> period]

(* new IntervalFunction().runAsPromise(runner, time, evalparams,           *)
(* startdetails), once.                                                    *)
RunAsPromise(time, startdetails) ==
    /\ started = NotStarted
    /\ started' = [called |-> TRUE, time |-> time, details |-> startdetails]
    /\ start(orTen(time), startdetails)
    /\ UNCHANGED <<effect, pendingFrame, raf, ticks, runs, resolved>>
    /\ TimerQuiet

(* The timer fires: the callback of IntervalFunction.runAsPromise, whose   *)
(* runner does r.                                                          *)
Tick(r) ==
    /\ timer.on
    /\ ticks < MaxTicks
    /\ ticks' = ticks + 1
    /\ frame(evalparams(passState), r)
    /\ UNCHANGED <<started, effect, pendingFrame, raf>>
    /\ TimerQuiet

NextInterval ==
    \/ \E time \in Times, d \in Details : RunAsPromise(time, d)
    \/ \E r \in Rets : Tick(r)

SpecInterval == InitTimer /\ [][NextInterval]_vars

(* A request for a frame at every tick. *)
requestAlways(p, n) == n + 1

(* window.requestAnimationFrame(callback) unless one is pending. *)
requestFrame(p, n) == IF ~p THEN n + 1 ELSE n

(* new AnimationState().runAsPromise(frame, time, startdetails), once. *)
AnimationRun(time, startdetails) ==
    /\ started = NotStarted
    /\ started' = [called |-> TRUE, time |-> time, details |-> startdetails]
    /\ start(bitOrTen(time), startdetails)
    /\ UNCHANGED <<effect, pendingFrame, raf, ticks, runs, resolved>>
    /\ TimerQuiet

(* The timer fires: AnimationState.tryFrame up to the request. *)
AnimationTick ==
    /\ timer.on
    /\ ticks < MaxTicks
    /\ ticks' = ticks + 1
    /\ effect' = effect + 1
    /\ raf' = requestFrame(pendingFrame, raf)
    /\ pendingFrame' = TRUE
    /\ UNCHANGED <<started, interval, timer, passState, runs, resolved>>
    /\ TimerQuiet

(* The animation frame callback, whose runner does r. *)
AnimationFrame(r) ==
    /\ raf > 0
    /\ raf' = raf - 1
    /\ pendingFrame' = FALSE
    /\ effect' = 0
    /\ UNCHANGED <<started, ticks>>
    /\ frame(<<effect>>, r)
    /\ TimerQuiet

NextAnimation ==
    \/ \E time \in Times, d \in Details : AnimationRun(time, d)
    \/ AnimationTick
    \/ \E r \in Rets : AnimationFrame(r)

SpecAnimation == InitTimer /\ [][NextAnimation]_vars

----------------------------------------------------------------------------
(* Vocabulary of the properties. *)

(* How many entries of seq are x. *)
Count(x, seq) == Cardinality({i \in DOMAIN seq : seq[i] = x})

(* The listeners a log invoked, in order, and the arguments they received. *)
Invoked(lg) == [i \in DOMAIN lg |-> lg[i][1]]
Received(lg) == [i \in DOMAIN lg |-> lg[i][2]]

(* One notification of every entry of ls, in order, with argument a. *)
Notification(ls, a) == [i \in DOMAIN ls |-> <<ls[i], a>>]

(* The call c is one that the cell answers with a dispatch. *)
Dispatches(c) ==
    \/ c.op = "forceTrigger"
    \/ c.op = "set" /\ (c.force \/ c.arg # c.preValue)

(* The application's last call has returned. *)
Returned(op) == Idle /\ lastOp.op = op

(* The last two calls were set(v1) and set(v2), force omitted, v1 # v2,     *)
(* with a listener registered.                                              *)
TwoSets ==
    /\ Idle
    /\ prevOp.call.op = "set" /\ ~prevOp.call.force
    /\ lastOp.op = "set" /\ ~lastOp.force
    /\ prevOp.call.arg # lastOp.arg
    /\ listeners # <<>>

(* C1 as stated: after set(v1); set(v2) with v1 # v2, the registered        *)
(* listeners were notified exactly twice, with translator(v1) and then      *)
(* translator(v2), whatever the value stored before.                        *)
C1_TwoSetsNotifyTwice ==
    TwoSets =>
        prevOp.log \o log =
            Notification(listeners, translator[prevOp.call.arg])
                \o Notification(listeners, translator[lastOp.arg])

(* C1 amended: after set(v1); set(v2) with v1 # v2 and v1 different from    *)
(* the value stored before the first call, the registered listeners were    *)
(* notified exactly twice, with translator(v1) and then translator(v2).     *)
C1_TwoChangingSetsNotifyTwice ==
    (TwoSets /\ prevOp.call.arg # prevOp.call.preValue) =>
        prevOp.log \o log =
            Notification(listeners, translator[prevOp.call.arg])
                \o Notification(listeners, translator[lastOp.arg])

C1_Witness ==
    /\ TwoSets
    /\ prevOp.call.arg # prevOp.call.preValue
    /\ translator = GoodBad
    /\ listeners = <<"l1">>
    /\ Len(prevOp.log \o log) = 2

(* C2: set(v) without force and v identical to the stored value invokes no  *)
(* listener (also when v is an object changed in place since it was         *)
(* stored); set(v, true) invokes every registered listener once per         *)
(* registration, whether or not v is the stored value.                      *)
C2_SetNotifiesOnChangeOrForce ==
    Returned("set") =>
        /\ (~lastOp.force /\ lastOp.arg = lastOp.preValue) => log = <<>>
        /\ lastOp.force =>
              \A l \in Listeners :
                  Count(l, Invoked(log)) = Count(l, lastOp.preListeners)

C2_Witness ==
    /\ Returned("set")
    /\ ~lastOp.force
    /\ lastOp.arg \in Objs
    /\ lastOp.arg = lastOp.preValue
    /\ prevOp.call.op = "mutate" /\ prevOp.call.arg = lastOp.arg
    /\ listeners # <<>>
    /\ log = <<>>

C4_GetReturnsUntranslated ==
    /\ Returned("get") => got = value
    /\ (Idle /\ Dispatches(lastOp)) =>
           \A i \in DOMAIN log : log[i][2] = translator[value]

(* C5: set(v) without force and v identical to the stored value changes     *)
(* neither the value nor the listeners, invokes nothing and returns a       *)
(* promise.                                                                 *)
C5_UnchangedSetReturnsPromise ==
    (Returned("set") /\ ~lastOp.force /\ lastOp.arg = lastOp.preValue) =>
        /\ value = lastOp.preValue
        /\ listeners = lastOp.preListeners
        /\ log = <<>>
        /\ ret = "promise"

(* C6: forceTrigger() leaves the stored value unchanged, invokes every      *)
(* registered listener once per registration with translator(rawValue) and  *)
(* returns dispatch's promise.                                              *)
C6_ForceTriggerNotifiesAll ==
    Returned("forceTrigger") =>
        /\ value = lastOp.preValue
        /\ \A l \in Listeners :
               Count(l, Invoked(log)) = Count(l, lastOp.preListeners)
        /\ \A i \in DOMAIN log : log[i][2] = translator[lastOp.preValue]
        /\ ret = "promise"

C6_Witness ==
    /\ Returned("forceTrigger")
    /\ translator = GoodBad
    /\ lastOp.preListeners = <<"l2", "l1">>
    /\ Len(log) = 2

(* The calls listeners made back into the cell during a call were exactly   *)
(* one call `call` with argument x, made by listener l.                     *)
OnlyReentry(re, l, call, x) ==
    re = <<[by |-> l, call |-> call, arg |-> x]>>

(* C7: when a listener removes itself while dispatch is invoking it, every  *)
(* other listener registered when the dispatch started is still invoked     *)
(* once per registration in that dispatch, and a listener that was          *)
(* registered once and removed itself is not invoked by the next dispatch.  *)
C7_SelfRemovalKeepsFanOut ==
    \A l \in Listeners :
        /\ (Idle /\ Dispatches(lastOp) /\ OnlyReentry(reent, l, "removeListener", l)) =>
               \A m \in Listeners \ {l} :
                   Count(m, Invoked(log)) = Count(m, lastOp.preListeners)
        /\ (/\ Idle /\ Dispatches(lastOp)
            /\ Dispatches(prevOp.call)
            /\ OnlyReentry(prevOp.reent, l, "removeListener", l)
            /\ Count(l, prevOp.call.preListeners) = 1) =>
               Count(l, Invoked(log)) = 0

(* C8: dispatch invokes the listeners of the array as it was when dispatch  *)
(* was called, whatever listeners add, remove or clear meanwhile, and a     *)
(* listener added during a dispatch is invoked by the next one.             *)
C8_DispatchFansOutToSnapshot ==
    /\ (Idle /\ Dispatches(lastOp)) => Invoked(log) = lastOp.preListeners
    /\ \A l, x \in Listeners :
           (/\ Idle /\ Dispatches(lastOp) /\ reent = <<>>
            /\ Dispatches(prevOp.call)
            /\ OnlyReentry(prevOp.reent, l, "addListener", x)) =>
               Count(x, Invoked(log)) >= 1

(* C9: addListener appends without de-duplication, and a dispatch invokes   *)
(* the listeners in the order of the array, a listener registered k times   *)
(* being invoked k times at the positions of its registrations.             *)
C9_DispatchInAdditionOrder ==
    /\ Returned("addListener") =>
           /\ Len(listeners) = Len(lastOp.preListeners) + 1
           /\ listeners[Len(listeners)] = lastOp.arg
           /\ \A i \in DOMAIN lastOp.preListeners : listeners[i] = lastOp.preListeners[i]
    /\ (Idle /\ Dispatches(lastOp)) => Invoked(log) = lastOp.preListeners

C9_Witness ==
    /\ Returned("forceTrigger")
    /\ prevOp.call.op = "addListener"
    /\ prevOp.call.arg = "l1"
    /\ prevOp.call.preListeners = <<"l1", "l2">>
    /\ Invoked(log) = <<"l1", "l2", "l1">>

(* C10: removeListener(fn) removes the first entry identical to fn and      *)
(* keeps every other entry, later duplicates of fn included, in order; when *)
(* fn is not registered the array is unchanged.                             *)
C10_RemoveFirstOccurrence ==
    Returned("removeListener") =>
        LET pre == lastOp.preListeners
            fn == lastOp.arg
        IN IF Count(fn, pre) = 0
           THEN listeners = pre
           ELSE \E i \in DOMAIN pre :
                   /\ pre[i] = fn
                   /\ \A j \in 1..(i - 1) : pre[j] # fn
                   /\ Len(listeners) = Len(pre) - 1
                   /\ \A j \in 1..(i - 1) : listeners[j] = pre[j]
                   /\ \A j \in i..(Len(pre) - 1) : listeners[j] = pre[j + 1]

C10_Witness ==
    /\ Returned("removeListener")
    /\ lastOp.arg = "l1"
    /\ lastOp.preListeners = <<"l2", "l1", "l1">>
    /\ listeners = <<"l2", "l1">>

(* C11: clearEvents() empties the listener array, a second clearEvents()    *)
(* changes nothing more, a dispatch that follows clearEvents() invokes no   *)
(* listener, and a listener added after clearEvents() is the only one the   *)
(* array holds and the only one a dispatch that follows invokes.            *)
C11_ClearEmptiesAndIsIdempotent ==
    /\ Returned("clearEvents") => listeners = <<>>
    /\ (Returned("clearEvents") /\ prevOp.call.op = "clearEvents") =>
           /\ lastOp.preListeners = <<>>
           /\ listeners = lastOp.preListeners
    /\ (Idle /\ Dispatches(lastOp) /\ prevOp.call.op = "clearEvents") => log = <<>>
    /\ (Returned("addListener") /\ prevOp.call.op = "clearEvents") =>
           listeners = <<lastOp.arg>>
    /\ (Idle /\ Dispatches(lastOp) /\ prevOp.call.op = "addListener"
          /\ prevOp.call.preListeners = <<>>) =>
           Invoked(log) = <<prevOp.call.arg>>

C11_Witness ==
    /\ Returned("clearEvents")
    /\ prevOp.call.op = "clearEvents"
    /\ prevOp.call.preListeners = <<"l1", "l2", "l1">>
    /\ listeners = <<>>

(* The latest dispatch has left its loop and returned its promise. *)
Dispatched == Idle /\ outcome \in {"pending", "resolved", "rejected"}

AllResolved == \A i \in DOMAIN proms : proms[i] = "resolved"

(* C13: the promise dispatch returned is resolved only when every promise   *)
(* its listeners returned is resolved; it is resolved as soon as they all   *)
(* are, and at once when no listener returned a promise (values returned    *)
(* synchronously are not waited for).                                       *)
C13_DispatchAwaitsAllPromises ==
    /\ outcome = "resolved" => AllResolved
    /\ (Dispatched /\ ~threw /\ AllResolved) => outcome = "resolved"
    /\ (Dispatched /\ ~threw /\ ~AllResolved) => outcome # "resolved"

C13_Witness ==
    /\ Dispatched
    /\ Len(log) = 3
    /\ proms = <<"resolved", "resolved">>
    /\ outcome = "resolved"

(* C14: a listener that throws, or returns a promise that is rejected,      *)
(* makes the promise of the dispatch (which is what set and forceTrigger    *)
(* return) rejected; the value set stays set and the listeners invoked      *)
(* before the failure stay invoked.                                         *)
C14_ListenerFailureFailsDispatch ==
    (Dispatched /\ (threw \/ \E i \in DOMAIN proms : proms[i] = "rejected")) =>
        /\ outcome = "rejected"
        /\ (Dispatches(lastOp) /\ lastOp.op = "set") => value = lastOp.arg
        /\ (Dispatches(lastOp) /\ threw) =>
               /\ ret = "promise"
               /\ Len(log) >= 1
               /\ log = SubSeq(Notification(lastOp.preListeners, translator[value]),
                               1, Len(log))

C14_Witness ==
    /\ Dispatched
    /\ lastOp.op = "set"
    /\ lastOp.arg # lastOp.preValue
    /\ threw
    /\ Len(log) = 2
    /\ Len(lastOp.preListeners) = 3
    /\ outcome = "rejected"

----------------------------------------------------------------------------
(* Vocabulary of the DOM claims. *)

(* A callback has just run for region r. *)
Reconciled(r) == ran.op = "frame" /\ ran.r = r /\ ran.c # ""

(* The region's listener is still on its cell. *)
Bound(r) == regions[r].used /\ RegionListener(r) \in Range(clisteners[regions[r].cell])

(* The text of each child of the container. *)
Texts(shown) == [i \in DOMAIN shown |-> shown[i].s]

----------------------------------------------------------------------------
(* C12: clearEvents() leaves the cell without listeners, and from then on  *)
(* a set or a forceTrigger of that cell asks for no animation frame and    *)
(* changes neither the container's children, nor their text, nor the bound *)
(* attribute.  (c0 has no listener only after clearEvents: its bindings    *)
(* are there from the start and nothing else removes them.)                *)
C12_ClearEventsBreaksBindings ==
    [][/\ ran'.op = "clearEvents" => clisteners'[ran'.c] = <<>>
       /\ (clisteners["c0"] = <<>> /\ ran'.op \in {"set", "forceTrigger"} /\ ran'.c = "c0")
              => (frames' = frames /\ dom' = dom /\ text' = text /\ attr' = attr)]_vars

(* The cell bound to a region and to an attribute was cleared after both   *)
(* had rendered "A", and has then been set to "B".                         *)
C12_Witness ==
    /\ app = "attr"
    /\ clisteners["c0"] = <<>>
    /\ ran = [op |-> "set", c |-> "c0", r |-> 0]
    /\ cvalue["c0"] = <<Str("B")>>
    /\ frames = <<>>
    /\ attr = "A"
    /\ Texts(Shown(dom, text)) = <<"A">>

----------------------------------------------------------------------------
(* C15: while the binding of c0 is in place and no callback is waiting,    *)
(* the container holds exactly one text node, whose text is the string c0  *)
(* holds: nothing is left of earlier renders.                              *)
C15_TextRebindLeavesOneNode ==
    (/\ app \in {"text", "attr"}
     /\ Bound(Root)
     /\ frames = <<>>
     /\ cvalue["c0"][1].t = "text")
        => (Len(dom) = 1 /\ dom[1] \in TextIds /\ text[dom[1]] = cvalue["c0"][1].s)

(* "A" was rendered, c0 was set to "B", and the callback has run. *)
C15_Witness ==
    /\ app = "text"
    /\ Reconciled(Root)
    /\ frames = <<>>
    /\ Texts(before.shown) = <<"A">>
    /\ cvalue["c0"] = <<Str("B")>>
    /\ Texts(Shown(dom, text)) = <<"B">>

----------------------------------------------------------------------------
(* The listeners of region q, on any cell. *)
Listening(q) == \E c \in Cells : RegionListener(q) \in Range(clisteners[c])

(* The nodes #current of region r reaches, through nested regions too. *)
RECURSIVE Reach(_, _)
Reach(rg, r) ==
    LET cur == rg[r].cur
        items == IF cur.t = "arr" THEN cur.items
                 ELSE IF cur.t = "null" THEN <<>> ELSE <<[t |-> cur.t, n |-> cur.n]>>
    IN UNION {IF items[i].t = "node" THEN {items[i].n} ELSE Reach(rg, items[i].n) :
                 i \in DOMAIN items}

(* What the container shows: its elements, and the text of its text nodes *)
(* that have any.                                                          *)
Content(shown) ==
    LET seen == SelectSeq(shown, LAMBDA x : x.n \in Elements \/ x.s # "")
    IN [i \in DOMAIN seen |-> [n |-> IF seen[i].n \in Elements THEN seen[i].n ELSE 0,
                                s |-> seen[i].s]]

(* What a render of value v shows, the cells in it showing their values. *)
RECURSIVE Render(_, _)
Render(v, i) ==
    IF i > Len(v) THEN <<>>
    ELSE (CASE v[i].t = "text" -> <<[n |-> 0, s |-> v[i].s]>>
            [] v[i].t = "node" -> <<[n |-> v[i].n, s |-> ""]>>
            [] v[i].t = "cell" -> Render(cvalue[v[i].s], 1)
            [] OTHER -> <<>>) \o Render(v, i + 1)

----------------------------------------------------------------------------
(* C16: when the callback of a region whose #current is [nodeA, nested     *)
(* region of cX] has run with the value [nodeB], nodeA is no longer in the *)
(* container, the nested region no longer listens to cX, and the container *)
(* holds nodeB and nothing else.                                           *)
C16_ListReplacedByNode ==
    \A q \in RegionIds :
        (/\ Reconciled(Root)
         /\ before.cur = Arr(<<[t |-> "node", n |-> nodeA], [t |-> "bind", n |-> q]>>)
         /\ before.v = <<Elem(nodeB)>>)
            => (/\ ~Attached(dom, nodeA)
                /\ ~Listening(q)
                /\ dom = <<nodeB>>)

----------------------------------------------------------------------------
(* C17: when a callback called #hideAll on a region that has a nested      *)
(* region below it, no region of that subtree listens to a cell any more.  *)
C17_HideAllDetachesSubtree ==
    (ran.op = "frame" /\ Cardinality(torn) >= 2) => \A q \in torn : ~Listening(q)

----------------------------------------------------------------------------
(* C18: when the callback of c0's region has run with the value the        *)
(* container already showed and has left no callback waiting, the          *)
(* container shows what it showed before: the same elements and texts, in  *)
(* the same order.                                                         *)
C18_SecondRenderShowsTheSame ==
    (/\ Reconciled(Root)
     /\ frames = <<>>
     /\ before.v = cvalue["c0"]
     /\ Content(before.shown) = Render(before.v, 1))
        => Content(Shown(dom, text)) = Content(before.shown)

----------------------------------------------------------------------------
(* C19: after a callback of a region that ended without an exception, the  *)
(* nodes its #current reaches are attached to the container, and the       *)
(* container has no node that the #current of c0's region does not reach.  *)
C19_CurrentDescribesTheDom ==
    (ran.op = "frame" /\ ran.c # "" /\ thrown = "none")
        => (/\ Reach(regions, ran.r) \subseteq Range(dom)
            /\ Range(dom) \subseteq Reach(regions, Root))

----------------------------------------------------------------------------
(* C20: each listener of a cell asks for one animation frame per           *)
(* notification, with the value notified; the callbacks run in the order   *)
(* they were asked for, each with its own value; and when the callbacks of *)
(* a bound c0 have all run, the container shows the render of the value c0 *)
(* holds.                                                                  *)
C20_OneCallbackPerSetInOrder ==
    [][/\ (ran'.op = "set" /\ cvalue'[ran'.c] # cvalue[ran'.c])
              => frames' = frames \o dispatchFrames(clisteners[ran'.c], cvalue'[ran'.c])
       /\ ran'.op = "frame"
              => (/\ before'.v = Head(frames).v
                  /\ ran'.r = Head(frames).r
                  /\ SubSeq(frames', 1, Len(frames) - 1) = Tail(frames))
       /\ (ran'.op = "frame" /\ frames' = <<>> /\ Bound(Root)')
              => Content(Shown(dom', text')) = Render(cvalue'["c0"], 1)]_vars

----------------------------------------------------------------------------
(* The value has no cell in it. *)
Plain(v) == \A i \in DOMAIN v : v[i].t # "cell"

(* C21: clearEvents takes no waiting callback away, and a callback that    *)
(* runs after the listener that asked for it was removed still applies the *)
(* value it was notified with: the region's callback renders that value    *)
(* (checked for values without cells, when the callback does not throw),   *)
(* the attribute's callback writes it.                                     *)
C21_ScheduledCallbackStillRuns ==
    [][/\ ran'.op = "clearEvents" => frames' = frames
       /\ (/\ ran'.op = "frame"
           /\ ran'.r = Root
           /\ clisteners["c0"] = <<>>
           /\ Plain(before'.v)
           /\ thrown' = "none")
              => (/\ before'.v = Head(frames).v
                  /\ Content(Shown(dom', text')) = Render(before'.v, 1))
       /\ (ran'.op = "frame" /\ ran'.c = "" /\ clisteners["c0"] = <<>>)
              => attr' = Head(frames).v[1].s]_vars

(* "A" was shown, c0 was set to "B" and then cleared, and the callback of  *)
(* the set has run and shows "B".                                          *)
C21_Witness ==
    /\ app = "text"
    /\ Reconciled(Root)
    /\ clisteners["c0"] = <<>>
    /\ Texts(before.shown) = <<"A">>
    /\ before.v = <<Str("B")>>
    /\ Texts(Shown(dom, text)) = <<"B">>

----------------------------------------------------------------------------
----------------------------------------------------------------------------
----------------------------------------------------------------------------
(* C24: no callback ends with an exception. *)
C24_NoCallbackThrows == ran.op = "frame" => thrown = "none"

----------------------------------------------------------------------------
(* Region r is no longer part of what c0's region renders. *)
Replaced(r) == r \notin Subtree(regions, Root)

(* C25: a callback of a nested region that the parent has replaced since   *)
(* it was asked for ends without an exception and leaves the container's   *)
(* children and their text as they were.                                   *)
C25_ReplacedRegionCallbackIsHarmless ==
    (ran.op = "frame" /\ ran.c # "" /\ Replaced(ran.r))
        => (thrown = "none" /\ Shown(dom, text) = before.shown)

----------------------------------------------------------------------------
(* C26: when a callback of c0's region has run without an exception and    *)
(* the first element of its previous #current was a nested region, that    *)
(* nested region no longer listens to its cell.                            *)
C26_AnchorRegionIsRetired ==
    (/\ Reconciled(Root)
     /\ thrown = "none"
     /\ before.cur.t = "arr"
     /\ before.cur.items # <<>>
     /\ before.cur.items[1].t = "bind")
        => ~Listening(before.cur.items[1].n)

----------------------------------------------------------------------------
(* C27: the region bound in place of nodeP, before its sibling nodeS, stays *)
(* there: after each callback that rendered a value with something to show *)
(* the container shows that render followed by nodeS, and every text node  *)
(* attached is one #current reaches.                                       *)
C27_RegionKeepsItsPlace ==
    (/\ app = "place"
     /\ Reconciled(Root)
     /\ thrown = "none"
     /\ Render(before.v, 1) # <<>>)
        => (/\ Content(Shown(dom, text)) = Render(before.v, 1) \o <<[n |-> nodeS, s |-> ""]>>
            /\ Range(dom) \ Elements \subseteq Reach(regions, Root))

----------------------------------------------------------------------------
(* The children of the container that are not among own, in order. *)
Others(d, own) == SelectSeq(d, LAMBDA x : x \notin own)

(* Where the first of the nodes own is among the container's children. *)
Place(d, own) == Min({i \in DOMAIN d : d[i] \in own})

(* C28: a callback of a nested region that is part of what c0's region     *)
(* renders leaves #current of c0's region as it was, leaves the container's *)
(* other children, their order and their text as they were, and puts the   *)
(* nested region's new nodes where its previous nodes were.                *)
C28_NestedSetStaysInItsRegion ==
    [][(/\ ran'.op = "frame"
        /\ ran'.c # ""
        /\ ran'.r # Root
        /\ ran'.r \in Subtree(regions, Root))
          => LET was == Reach(regions, ran'.r)
                 now == Reach(regions', ran'.r)
             IN /\ regions'[Root].cur = regions[Root].cur
                /\ Shown(Others(dom', now), text') = Shown(Others(dom, was), text)
                /\ (was # {} /\ now # {}) => Place(dom', now) = Place(dom, was)]_vars

----------------------------------------------------------------------------
(* The units of value v that #getReplacement collects as DOM-producing:    *)
(* strings, nodes and cells.                                               *)
Units(v) == SelectSeq(v, LAMBDA u : u.t \in {"text", "node", "cell"})

(* C29: when a callback of c0's region has run, each cell in the value it  *)
(* was handed has, at its place in #current, a region made by that         *)
(* callback, which listens to the cell exactly once and has asked for one  *)
(* animation frame with the cell's value.                                  *)
C29_NestedCellsGetFreshRegions ==
    [][(ran'.op = "frame" /\ ran'.c # "" /\ ran'.r = Root)
          => LET units == Units(before'.v)
                 cur == regions'[Root].cur
             IN \A i \in DOMAIN units :
                   units[i].t = "cell"
                     => /\ cur.t = "arr"
                        /\ i \in DOMAIN cur.items
                        /\ cur.items[i].t = "bind"
                        /\ ~regions[cur.items[i].n].used
                        /\ regions'[cur.items[i].n].cell = units[i].s
                        /\ Count(RegionListener(cur.items[i].n), clisteners'[units[i].s]) = 1
                        /\ Count([k |-> "region", r |-> cur.items[i].n,
                                  v |-> cvalue[units[i].s]], frames') = 1]_vars

----------------------------------------------------------------------------
(* Region r has just installed a value: its callback, or the bind of a     *)
(* literal, ended without an exception.                                    *)
Installed(r) ==
    /\ thrown = "none"
    /\ \/ Reconciled(r)
       \/ ran.op = "bind" /\ ran.c = "" /\ ran.r = r

(* The node element e of #current stands for in the container: the node   *)
(* itself, or the placeholder a nested region made by the installation     *)
(* holds.                                                                  *)
NodeOf(e) == IF e.t = "node" THEN e.n ELSE regions[e.n].cur.n

(* Element e of #current is unit u of the value. *)
IsUnit(e, u) ==
    CASE u.t = "node" -> e = [t |-> "node", n |-> u.n]
      [] u.t = "text" -> e.t = "node" /\ e.n \in TextIds /\ text[e.n] = u.s
      [] OTHER -> e.t = "bind" /\ regions[e.n].cell = u.s /\ regions[e.n].cur.t = "node"

----------------------------------------------------------------------------
(* The value of attribute k once the property bags of value v are applied  *)
(* to a container where it was old: that of the last bag naming k.         *)
Merged(v, k, old) ==
    LET at == {i \in DOMAIN v : v[i].t = k}
    IN IF at = {} THEN old ELSE v[CHOOSE i \in at : \A j \in at : j <= i].s

(* C31: a callback of c0's region that ends without an exception leaves   *)
(* each attribute of the container with the value of the last property bag *)
(* of the value that names it, and every attribute no property bag of the  *)
(* value names as it was.                                                  *)
C31_BagsMergeOntoTheContainer ==
    [][(ran'.op = "frame" /\ ran'.c # "" /\ ran'.r = Root /\ thrown' = "none")
          => (/\ attr' = Merged(before'.v, "title", attr)
              /\ props' = [k \in OtherKeys |->
                              IF k \in BagKeys THEN Merged(before'.v, k, props[k])
                              ELSE props[k]])]_vars

----------------------------------------------------------------------------
(* C32: the container never gets an attribute named after a key of an      *)
(* array, and after a callback of c0's region the node of each array in    *)
(* the value it rendered is a child of the container.                      *)
C32_ArrayUnitsAreInstalled ==
    /\ props["0"] = "absent"
    /\ props["___imogeneExtended___"] = "absent"
    /\ Reconciled(Root)
         => \A i \in DOMAIN before.v :
               (before.v[i].t = "array" /\ before.v[i].n # 0)
                   => before.v[i].n \in Range(dom)

----------------------------------------------------------------------------
(* The argument of the last invocation of listener l in log lg, "-" when   *)
(* it was not invoked.                                                     *)
LastReceived(lg, l) ==
    LET at == {i \in DOMAIN lg : lg[i][1] = l}
    IN IF at = {} THEN "-" ELSE lg[CHOOSE i \in at : \A j \in at : j <= i][2]

(* C33: when a set or forceTrigger of the application has returned, with   *)
(* every dispatch it started, each registered listener that was notified   *)
(* has received the translated stored value last.                          *)
C33_LastNotificationIsCurrent ==
    (Idle /\ lastOp.op \in {"set", "forceTrigger"})
        => \A l \in Range(listeners) :
               LastReceived(log, l) \in {"-", translator[value]}

----------------------------------------------------------------------------
(* C34: when a dispatch has returned, every listener that was registered   *)
(* when it started has been invoked in it, in order, with its argument,    *)
(* whether or not a listener threw or returned a promise that is rejected. *)
C34_FailureKeepsFanOut ==
    (Dispatched /\ Dispatches(lastOp))
        => log = Notification(lastOp.preListeners, translator[value])

----------------------------------------------------------------------------
(* The class names in string str. *)
ClassesOf(str) == Range(split(str)) \ {<<>>}

(* C35: after each callback of the class binding, handed string s, the     *)
(* element has every class s names and none that the string of the         *)
(* callback before named and s does not, #currentList holds the classes of *)
(* s, and the element has its own class and no class that no string handed *)
(* to a callback named.                                                    *)
C35_ClassListFollowsTheString ==
    classRan.n > 0
        => (/\ ClassesOf(classRan.s) \subseteq classList
            /\ (ClassesOf(classRan.prev) \ ClassesOf(classRan.s)) \cap classList = {}
            /\ Range(currentList) \ {<<>>} = ClassesOf(classRan.s)
            /\ ownClass \in classList
            /\ classList \subseteq {ownClass} \cup everBound)

-----------------------------------------------------------------------------
(* The result r is true or an object with continue === true. *)
Continues(r) == r.t = "true" \/ (r.t = "object" /\ r.continue = "true")

(* The runner returned r, and r is neither of the two. *)
Stops(r) == r.t # "throws" /\ ~Continues(r)

(* The state the frame after run receives. *)
StateAfter(run) ==
    IF run.ret.t = "object" /\ run.ret.continue = "true" THEN run.ret.details ELSE run.state

(* C36: in IntervalFunction.runAsPromise the only frame whose result stops  *)
(* is the last one the runner ever had; resolve() has been called once if   *)
(* there is such a frame and never otherwise, and then interval is null and *)
(* the timer is cleared; the first frame receives startdetails, and each    *)
(* later one the details of a {continue: true, details} before it, or the   *)
(* same state after true.                                                   *)
C36_ResolvesOnceAtTheFirstStop ==
    LET n == Len(runs)
    IN /\ \A i \in 1 .. n : Stops(runs[i].ret) => i = n
       /\ resolved = IF n > 0 /\ Stops(runs[n].ret) THEN 1 ELSE 0
       /\ resolved = 1 => (interval = 0 /\ ~timer.on)
       /\ \A i \in 1 .. n :
              runs[i].state = IF i = 1 THEN started.details ELSE StateAfter(runs[i - 1])

(* Details, then true, then a stop: the third frame has the details of the *)
(* first, and the promise is resolved.                                     *)
C36_Witness ==
    /\ Len(runs) = 3
    /\ started.details = "d0"
    /\ runs[1].ret = RetObject("true", "d1")
    /\ runs[2].ret = RetTrue
    /\ runs[3].state = "d1"
    /\ runs[3].ret = RetFalse
    /\ resolved = 1
    /\ interval = 0

-----------------------------------------------------------------------------
RECURSIVE Delivered(_)
(* The sum of the counts the runner was passed. *)
Delivered(rs) == IF rs = <<>> THEN 0 ELSE Head(rs).params[1] + Delivered(Tail(rs))

(* How many ticks there had been at the frame callback before the i-th. *)
TicksBefore(i) == IF i = 1 THEN 0 ELSE runs[i - 1].at

(* C37: in AnimationState at most one animation frame callback is          *)
(* outstanding, and pending is true exactly while one is; each callback    *)
(* passes the runner the number of ticks since the callback before it and  *)
(* leaves the counter at the ticks since; the counts and the counter sum   *)
(* to the ticks, and once the animation has stopped the counts alone do.   *)
C37_TicksAreCoalescedNotLost ==
    /\ raf <= 1
    /\ pendingFrame <=> raf = 1
    /\ \A i \in DOMAIN runs : runs[i].params = <<runs[i].at - TicksBefore(i)>>
    /\ effect = ticks - TicksBefore(Len(runs) + 1)
    /\ Delivered(runs) + effect = ticks
    /\ (started.called /\ ~timer.on) => Delivered(runs) = ticks

(* Two ticks are delivered in one frame, a third in the next, which stops  *)
(* the animation.                                                          *)
C37_Witness ==
    /\ started.called
    /\ ~timer.on
    /\ ticks = 3
    /\ Len(runs) = 2
    /\ runs[1].params = <<2>>
    /\ runs[2].params = <<1>>
    /\ resolved = 1

-----------------------------------------------------------------------------
(* C38: the timer of AnimationState.runAsPromise has the given time as its *)
(* period when the time is a positive integer, and 10 when the time is     *)
(* omitted or 0.                                                           *)
C38_PeriodIsTheGivenTime ==
    started.called
        => timer.period = IF started.time \in {Omitted, 0} THEN 10 ELSE started.time

====
